---- MODULE Spec2Model ----
(***************************************************************************)
(* Seeded single-elimination bracket builder (procompetidor.py):           *)
(* SeedingGenerator, RoundNamer, Match and TournamentBracket.              *)
(*                                                                         *)
(* An athlete is identified by its 1-based position in the list handed to  *)
(* TournamentBracket (its "name"); None is modelled by 0.  Slot positions  *)
(* are 0-based, as in the source, and index TLA+ sequences at position+1.  *)
(***************************************************************************)
EXTENDS Integers, Sequences, FiniteSets, TLC

\* ------------------------------------------------------------------ bounds
\* largest number of athletes handed to TournamentBracket
MaxN == 33
\* largest number of athletes in the runs checked for termination
MaxLiveN == 5
\* largest number of rows of a loaded spreadsheet
MaxRows == 2
\* largest athlete count handed to _calculate_bracket_size on its own
MaxCount == 129

None == 0

Pow2(k) == 2 ^ k

\* ------------------------------------------------------- SeedingGenerator
TableSizes == {1, 2, 4, 8, 16, 32, 64, 128}

\* the table with two neighbouring entries of size 16 exchanged (4, 11 -> 11, 4)
seeding_orders_typo(n) ==
  IF n = 1 THEN <<
        0 >>
  ELSE
  IF n = 2 THEN <<
        0, 1 >>
  ELSE
  IF n = 4 THEN <<
        0, 3, 1, 2 >>
  ELSE
  IF n = 8 THEN <<
        0, 7, 3, 4, 1, 6, 2, 5 >>
  ELSE
  IF n = 16 THEN <<
        0, 15, 7, 8, 3, 12, 11, 4, 1, 14, 6, 9, 2, 13, 5, 10 >>
  ELSE
  IF n = 32 THEN <<
        0, 31, 15, 16, 7, 24, 8, 23, 3, 28, 12, 19, 4, 27, 11, 20, 1, 30, 14,
        17, 6, 25, 9, 22, 2, 29, 13, 18, 5, 26, 10, 21 >>
  ELSE
  IF n = 64 THEN <<
        0, 63, 31, 32, 15, 48, 16, 47, 7, 56, 24, 39, 8, 55, 23, 40, 3, 60,
        28, 35, 12, 51, 19, 44, 4, 59, 27, 36, 11, 52, 20, 43, 1, 62, 30, 33,
        14, 49, 17, 46, 6, 57, 25, 38, 9, 54, 22, 41, 2, 61, 29, 34, 13, 50,
        18, 45, 5, 58, 26, 37, 10, 53, 21, 42 >>
  ELSE
  IF n = 128 THEN <<
        0, 127, 63, 64, 31, 96, 32, 95, 15, 112, 48, 79, 16, 111, 47, 80, 7,
        120, 56, 71, 24, 103, 39, 88, 8, 119, 55, 72, 23, 104, 40, 87, 3,
        124, 60, 67, 28, 99, 35, 92, 12, 115, 51, 76, 19, 108, 44, 83, 4,
        123, 59, 68, 27, 100, 36, 91, 11, 116, 52, 75, 20, 107, 43, 84, 1,
        126, 62, 65, 30, 97, 33, 94, 14, 113, 49, 78, 17, 110, 46, 81, 6,
        121, 57, 70, 25, 102, 38, 89, 9, 118, 54, 73, 22, 105, 41, 86, 2,
        125, 61, 66, 29, 98, 34, 93, 13, 114, 50, 77, 18, 109, 45, 82, 5,
        122, 58, 69, 26, 101, 37, 90, 10, 117, 53, 74, 21, 106, 42, 85 >>
  ELSE << >>

\* the dictionary literal of generate_seeding_order
seeding_orders(n) ==
  IF n = 1 THEN <<
        0 >>
  ELSE
  IF n = 2 THEN <<
        0, 1 >>
  ELSE
  IF n = 4 THEN <<
        0, 3, 1, 2 >>
  ELSE
  IF n = 8 THEN <<
        0, 7, 3, 4, 1, 6, 2, 5 >>
  ELSE
  IF n = 16 THEN <<
        0, 15, 7, 8, 3, 12, 4, 11, 1, 14, 6, 9, 2, 13, 5, 10 >>
  ELSE
  IF n = 32 THEN <<
        0, 31, 15, 16, 7, 24, 8, 23, 3, 28, 12, 19, 4, 27, 11, 20, 1, 30, 14,
        17, 6, 25, 9, 22, 2, 29, 13, 18, 5, 26, 10, 21 >>
  ELSE
  IF n = 64 THEN <<
        0, 63, 31, 32, 15, 48, 16, 47, 7, 56, 24, 39, 8, 55, 23, 40, 3, 60,
        28, 35, 12, 51, 19, 44, 4, 59, 27, 36, 11, 52, 20, 43, 1, 62, 30, 33,
        14, 49, 17, 46, 6, 57, 25, 38, 9, 54, 22, 41, 2, 61, 29, 34, 13, 50,
        18, 45, 5, 58, 26, 37, 10, 53, 21, 42 >>
  ELSE
  IF n = 128 THEN <<
        0, 127, 63, 64, 31, 96, 32, 95, 15, 112, 48, 79, 16, 111, 47, 80, 7,
        120, 56, 71, 24, 103, 39, 88, 8, 119, 55, 72, 23, 104, 40, 87, 3,
        124, 60, 67, 28, 99, 35, 92, 12, 115, 51, 76, 19, 108, 44, 83, 4,
        123, 59, 68, 27, 100, 36, 91, 11, 116, 52, 75, 20, 107, 43, 84, 1,
        126, 62, 65, 30, 97, 33, 94, 14, 113, 49, 78, 17, 110, 46, 81, 6,
        121, 57, 70, 25, 102, 38, 89, 9, 118, 54, 73, 22, 105, 41, 86, 2,
        125, 61, 66, 29, 98, 34, 93, 13, 114, 50, 77, 18, 109, 45, 82, 5,
        122, 58, 69, 26, 101, 37, 90, 10, 117, 53, 74, 21, 106, 42, 85 >>
  ELSE << >>

\* lines 193-197: each position of half_order followed by its mirror
extend_pairs(half_order, bracket_size) ==
  [k \in 1..(2 * Len(half_order)) |->
     IF k % 2 = 1 THEN half_order[(k + 1) \div 2]
     ELSE bracket_size - 1 - half_order[k \div 2]]

RECURSIVE generate_seeding_order(_)
generate_seeding_order(bracket_size) ==
  IF bracket_size \in TableSizes THEN seeding_orders(bracket_size)
  ELSE extend_pairs(generate_seeding_order(bracket_size \div 2), bracket_size)

\* ------------------------------------------------------------- RoundNamer
\* a name is a tuple of its parts: the fixed text, then the count if formatted in
get_round_name(participants_count) ==
  CASE participants_count = 2 -> <<"FINAL">>
    [] participants_count = 4 -> <<"SEMIFINAIS">>
    [] participants_count = 8 -> <<"QUARTAS DE FINAL">>
    [] participants_count = 16 -> <<"OITAVAS DE FINAL">>
    [] participants_count = 32 -> <<"16-AVOS DE FINAL">>
    [] participants_count = 64 -> <<"32-AVOS DE FINAL">>
    [] participants_count = 128 -> <<"64-AVOS DE FINAL">>
    [] participants_count = 256 -> <<"128-AVOS DE FINAL">>
    [] OTHER -> <<"RODADA DE", participants_count>>

\* ------------------------------------------------------------------ Match
\* Match.__init__: no winner, number 0
NewMatch(athlete1, athlete2) ==
  [athlete1 |-> athlete1, athlete2 |-> athlete2, winner |-> None, number |-> 0]

\* has_both_athletes written with "or"
has_both_athletes_either(m) == m.athlete1 # None \/ m.athlete2 # None

has_both_athletes(m) == m.athlete1 # None /\ m.athlete2 # None

is_bye(m) == (m.athlete1 # None) # (m.athlete2 # None)

\* process_bye that only handles an empty second slot
process_bye_first_only(m) ==
  IF m.athlete1 # None /\ m.athlete2 = None THEN [m EXCEPT !.winner = m.athlete1]
  ELSE m

process_bye(m) ==
  IF m.athlete1 # None /\ m.athlete2 = None THEN [m EXCEPT !.winner = m.athlete1]
  ELSE IF m.athlete2 # None /\ m.athlete1 = None THEN [m EXCEPT !.winner = m.athlete2]
  ELSE m

\* ------------------------------------------------------ TournamentBracket
\* math.ceil(math.log2(n)) for n >= 1: the least k with 2^k >= n
RECURSIVE CeilLog2From(_, _)
CeilLog2From(n, k) == IF Pow2(k) >= n THEN k ELSE CeilLog2From(n, k + 1)

CeilLog2(n) == CeilLog2From(n, 0)

\* bracket size taken as 2 ** (floor(log2(n)) + 1)
calculate_bracket_size_next_power(num_athletes) ==
  LET bracket_size == Pow2(CeilLog2(num_athletes + 1))
  IN  <<bracket_size, bracket_size - num_athletes>>

\* _calculate_bracket_size: <<bracket_size, num_byes>>
calculate_bracket_size(num_athletes) ==
  LET bracket_size == Pow2(CeilLog2(num_athletes))
  IN  <<bracket_size, bracket_size - num_athletes>>

\* sorted(self.athletes, key=seed): stable, by ascending seed; yields names
RECURSIVE InsertBySeed(_, _, _)
InsertBySeed(aths, sorted, a) ==
  IF sorted = << >> THEN <<a>>
  ELSE LET last == sorted[Len(sorted)]
       IN IF aths[last].seed <= aths[a].seed THEN Append(sorted, a)
          ELSE Append(InsertBySeed(aths, SubSeq(sorted, 1, Len(sorted) - 1), a), last)

RECURSIVE SortPrefix(_, _)
SortPrefix(aths, k) ==
  IF k = 0 THEN << >> ELSE InsertBySeed(aths, SortPrefix(aths, k - 1), k)

sorted_by_seed(aths) == SortPrefix(aths, Len(aths))

\* _reassign_seeds that first sorts self.athletes in place by incoming seed
reassign_seeds_sorting(aths) ==
  [i \in 1..Len(aths) |-> [aths[sorted_by_seed(aths)[i]] EXCEPT !.seed = i]]

\* The team-aware draw: athletes grouped by team, groups ordered by
\* descending size (ties by first appearance), one athlete taken from each
\* group per pass.
TeamMembers(aths, t) == {i \in 1..Len(aths) : aths[i].team = t}

\* 1-based rank of the group of team t among the groups
TeamGroupRank(aths, t) ==
  LET size(u) == Cardinality(TeamMembers(aths, u))
      first(u) == CHOOSE i \in TeamMembers(aths, u) : \A j \in TeamMembers(aths, u) : i <= j
      teams == {aths[i].team : i \in 1..Len(aths)}
  IN 1 + Cardinality({u \in teams :
                        size(u) > size(t) \/ (size(u) = size(t) /\ first(u) < first(t))})

\* the pass in which athlete i is drawn: its 1-based position in its group
TeamPass(aths, i) ==
  Cardinality({j \in TeamMembers(aths, aths[i].team) : j <= i})

\* the seed the team-aware draw gives the athlete at input position i
TeamAwareSeed(aths, i) ==
  Cardinality({j \in 1..Len(aths) :
     \/ TeamPass(aths, j) < TeamPass(aths, i)
     \/ /\ TeamPass(aths, j) = TeamPass(aths, i)
        /\ TeamGroupRank(aths, aths[j].team) <= TeamGroupRank(aths, aths[i].team)})

\* _reassign_seeds doing the team-aware draw
reassign_seeds_team_aware(aths) ==
  [i \in 1..Len(aths) |-> [aths[i] EXCEPT !.seed = TeamAwareSeed(aths, i)]]

\* _reassign_seeds that leaves the seeds as they came
reassign_seeds_keep(aths) == aths

\* _reassign_seeds: seed = 1-based position in self.athletes
reassign_seeds(aths) == [i \in 1..Len(aths) |-> [aths[i] EXCEPT !.seed = i]]

\* lines 282-287: athlete i (0-based, in seed order) goes to seeding_order[i]
\* placement that puts the i-th athlete in slot i-1, not in seeding_order[i-1]
naive_placement_slot_order(sorted_athletes, seeding_order, bracket_size) ==
  [p \in 1..bracket_size |->
     IF p <= Len(sorted_athletes) THEN sorted_athletes[p] ELSE None]

naive_placement(sorted_athletes, seeding_order, bracket_size) ==
  [p \in 1..bracket_size |->
     LET here == {i \in 1..Len(sorted_athletes) : seeding_order[i] + 1 = p}
     IN IF here = {} THEN None
        ELSE sorted_athletes[CHOOSE i \in here : \A j \in here : j <= i]]

\* bye detection that records the first slot of the pair, occupied or not
bye_positions_of_first_slot(bracket) ==
  {2 * k :
     k \in {k \in 0..(Len(bracket) \div 2 - 1) :
              (bracket[2 * k + 1] # None /\ bracket[2 * k + 2] = None)
              \/ (bracket[2 * k + 2] # None /\ bracket[2 * k + 1] = None)}}

\* lines 308-315: occupied slot of every sibling pair with one empty slot
bye_positions_of(bracket) ==
  {IF bracket[2 * k + 1] # None THEN 2 * k ELSE 2 * k + 1 :
     k \in {k \in 0..(Len(bracket) \div 2 - 1) :
              (bracket[2 * k + 1] # None /\ bracket[2 * k + 2] = None)
              \/ (bracket[2 * k + 2] # None /\ bracket[2 * k + 1] = None)}}

\* position (1-based) of a value in a sequence, 0 when absent
IndexIn(seq, v) ==
  IF \E i \in 1..Len(seq) : seq[i] = v
  THEN CHOOSE i \in 1..Len(seq) : seq[i] = v /\ \A j \in 1..(i - 1) : seq[j] # v
  ELSE 0

\* rebalancing that leaves the naive placement as it is
optimize_bye_positions_unchanged(bracket, seeding_order, sorted_athletes) == bracket

\* rebalancing that fills the free positions in slot order, not seeding order
optimize_bye_positions_slot_order(bracket, seeding_order, sorted_athletes) ==
  LET bracket_size == Len(bracket)
      bye_positions == bye_positions_of(bracket)
      ordered_bye_positions == SelectSeq(seeding_order, LAMBDA pos : pos \in bye_positions)
      free_positions == SelectSeq([q \in 1..bracket_size |-> q - 1],
                                  LAMBDA pos : pos \notin bye_positions)
      nbye == Len(ordered_bye_positions)
  IN IF bye_positions = {} THEN bracket
     ELSE [p \in 1..bracket_size |->
             LET i == IndexIn(ordered_bye_positions, p - 1)
                 j == IndexIn(free_positions, p - 1)
             IN IF i > 0 /\ i <= Len(sorted_athletes) THEN sorted_athletes[i]
                ELSE IF j > 0 /\ nbye + j <= Len(sorted_athletes)
                     THEN sorted_athletes[nbye + j]
                     ELSE None]

\* rebalancing whose athlete_index starts one too far
optimize_bye_positions_skip_one(bracket, seeding_order, sorted_athletes) ==
  LET bracket_size == Len(bracket)
      bye_positions == bye_positions_of(bracket)
      ordered_bye_positions == SelectSeq(seeding_order, LAMBDA pos : pos \in bye_positions)
      free_positions == SelectSeq(seeding_order, LAMBDA pos : pos \notin bye_positions)
      nbye == Len(ordered_bye_positions)
  IN IF bye_positions = {} THEN bracket
     ELSE [p \in 1..bracket_size |->
             LET i == IndexIn(ordered_bye_positions, p - 1)
                 j == IndexIn(free_positions, p - 1)
             IN IF i > 0 /\ i <= Len(sorted_athletes) THEN sorted_athletes[i]
                ELSE IF j > 0 /\ nbye + 1 + j <= Len(sorted_athletes)
                     THEN sorted_athletes[nbye + 1 + j]
                     ELSE None]

\* rebalancing that takes the bye positions in slot order (sorted), not seeding order
optimize_bye_positions_sorted_byes(bracket, seeding_order, sorted_athletes) ==
  LET bracket_size == Len(bracket)
      bye_positions == bye_positions_of(bracket)
      ordered_bye_positions == SelectSeq([q \in 1..bracket_size |-> q - 1],
                                         LAMBDA pos : pos \in bye_positions)
      free_positions == SelectSeq(seeding_order, LAMBDA pos : pos \notin bye_positions)
      nbye == Len(ordered_bye_positions)
  IN IF bye_positions = {} THEN bracket
     ELSE [p \in 1..bracket_size |->
             LET i == IndexIn(ordered_bye_positions, p - 1)
                 j == IndexIn(free_positions, p - 1)
             IN IF i > 0 /\ i <= Len(sorted_athletes) THEN sorted_athletes[i]
                ELSE IF j > 0 /\ nbye + j <= Len(sorted_athletes)
                     THEN sorted_athletes[nbye + j]
                     ELSE None]

\* _optimize_bye_positions: returns the bracket list after the call
optimize_bye_positions(bracket, seeding_order, sorted_athletes) ==
  LET bracket_size == Len(bracket)
      bye_positions == bye_positions_of(bracket)
      ordered_bye_positions == SelectSeq(seeding_order, LAMBDA pos : pos \in bye_positions)
      free_positions == SelectSeq(seeding_order, LAMBDA pos : pos \notin bye_positions)
      nbye == Len(ordered_bye_positions)
  IN IF bye_positions = {} THEN bracket
     ELSE [p \in 1..bracket_size |->
             LET i == IndexIn(ordered_bye_positions, p - 1)
                 j == IndexIn(free_positions, p - 1)
             IN IF i > 0 /\ i <= Len(sorted_athletes) THEN sorted_athletes[i]
                ELSE IF j > 0 /\ nbye + j <= Len(sorted_athletes)
                     THEN sorted_athletes[nbye + j]
                     ELSE None]

\* the exceptions _create_initial_bracket can end in: ValueError of
\* math.log2(0), IndexError of seeding_order[i] (line 286) and IndexError of
\* bracket[pos2] (line 313) when the bracket has an odd number of slots
create_initial_bracket_raises(aths) ==
  \/ Len(aths) < 1
  \/ LET size == calculate_bracket_size(Len(aths))
     IN \/ Len(aths) > Len(generate_seeding_order(size[1]))
        \/ size[1] % 2 = 1

\* _create_initial_bracket
create_initial_bracket(aths) ==
  LET size == calculate_bracket_size(Len(aths))
      seeding_order == generate_seeding_order(size[1])
      sorted_athletes == sorted_by_seed(aths)
  IN optimize_bye_positions(
       naive_placement(sorted_athletes, seeding_order, size[1]),
       seeding_order, sorted_athletes)

\* _create_first_round: matches of sibling pairs, numbered by a running counter
RECURSIVE first_round_from(_, _, _)
first_round_from(initial_bracket, i, match_number) ==
  IF i >= Len(initial_bracket) THEN << >>
  ELSE LET m == NewMatch(initial_bracket[i + 1], initial_bracket[i + 2])
       IN IF has_both_athletes(m)
          THEN <<[m EXCEPT !.number = match_number]>>
               \o first_round_from(initial_bracket, i + 2, match_number + 1)
          ELSE IF m.athlete1 # None \/ m.athlete2 # None
          THEN <<process_bye(m)>> \o first_round_from(initial_bracket, i + 2, match_number)
          ELSE <<m>> \o first_round_from(initial_bracket, i + 2, match_number)

create_first_round(initial_bracket) == first_round_from(initial_bracket, 0, 1)

\* number of matches of a round with both athletes
CountBoth(round) == Cardinality({i \in 1..Len(round) : has_both_athletes(round[i])})

RECURSIVE CountBothRounds(_)
CountBothRounds(rs) ==
  IF rs = << >> THEN 0 ELSE CountBoth(Head(rs)) + CountBothRounds(Tail(rs))

\* next round that resolves a match with one winner set as a bye
RECURSIVE next_round_from_resolving_byes(_, _, _)
next_round_from_resolving_byes(current_round, i, match_number) ==
  IF i >= Len(current_round) THEN << >>
  ELSE LET winner1 == IF i < Len(current_round) THEN current_round[i + 1].winner ELSE None
           winner2 == IF i + 1 < Len(current_round) THEN current_round[i + 2].winner ELSE None
           m == NewMatch(winner1, winner2)
       IN IF winner1 # None /\ winner2 # None
          THEN <<[m EXCEPT !.number = match_number]>>
               \o next_round_from_resolving_byes(current_round, i + 2, match_number + 1)
          ELSE <<process_bye(m)>>
               \o next_round_from_resolving_byes(current_round, i + 2, match_number)

\* next round filled with the first athlete of each feeding match, not its winner
RECURSIVE next_round_from_first_athlete(_, _, _)
next_round_from_first_athlete(current_round, i, match_number) ==
  IF i >= Len(current_round) THEN << >>
  ELSE LET winner1 == IF i < Len(current_round) THEN current_round[i + 1].athlete1 ELSE None
           winner2 == IF i + 1 < Len(current_round) THEN current_round[i + 2].athlete1 ELSE None
           m == NewMatch(winner1, winner2)
       IN IF winner1 # None /\ winner2 # None
          THEN <<[m EXCEPT !.number = match_number]>>
               \o next_round_from_first_athlete(current_round, i + 2, match_number + 1)
          ELSE <<m>> \o next_round_from_first_athlete(current_round, i + 2, match_number)

\* lines 387-396: the next round from the winners of current_round
RECURSIVE next_round_from(_, _, _)
next_round_from(current_round, i, match_number) ==
  IF i >= Len(current_round) THEN << >>
  ELSE LET winner1 == IF i < Len(current_round) THEN current_round[i + 1].winner ELSE None
           winner2 == IF i + 1 < Len(current_round) THEN current_round[i + 2].winner ELSE None
           m == NewMatch(winner1, winner2)
       IN IF winner1 # None /\ winner2 # None
          THEN <<[m EXCEPT !.number = match_number]>>
               \o next_round_from(current_round, i + 2, match_number + 1)
          ELSE <<m>> \o next_round_from(current_round, i + 2, match_number)

\* the while loop stopping at len(current_round) > 2
RECURSIVE subsequent_rounds_stop_early(_, _)
subsequent_rounds_stop_early(current_round, match_number) ==
  IF Len(current_round) > 2
  THEN LET next_round == next_round_from(current_round, 0, match_number)
           rest == subsequent_rounds_stop_early(next_round,
                                                match_number + CountBoth(next_round))
       IN [rounds |-> <<next_round>> \o rest.rounds,
           names |-> <<get_round_name(Len(next_round) * 2)>> \o rest.names]
  ELSE [rounds |-> << >>, names |-> << >>]

\* lines 384-400: rounds and names appended by the while loop
RECURSIVE subsequent_rounds(_, _)
subsequent_rounds(current_round, match_number) ==
  IF Len(current_round) > 1
  THEN LET next_round == next_round_from(current_round, 0, match_number)
           rest == subsequent_rounds(next_round, match_number + CountBoth(next_round))
       IN [rounds |-> <<next_round>> \o rest.rounds,
           names |-> <<get_round_name(Len(next_round) * 2)>> \o rest.names]
  ELSE [rounds |-> << >>, names |-> << >>]

\* ------------------------------------------------------------------ state
VARIABLES
  pc,               \* position inside TournamentBracket.__init__ / _build_bracket
  given,            \* the athlete list as the caller held it before the call
  athletes,         \* self.athletes (the caller's Athlete objects themselves)
  rounds,           \* self.rounds
  round_names,      \* self.round_names
  initial_bracket,  \* initial_bracket of _build_bracket
  fn_pc,            \* position inside the size / seeding-order computation
  fn_n,             \* num_athletes given to _calculate_bracket_size
  fn_size,          \* <<bracket_size, num_byes>> it returned
  half_order,       \* half_order of generate_seeding_order
  full_order,       \* full_order of generate_seeding_order
  fn_order,         \* list returned by generate_seeding_order
  athletes_data,    \* st.session_state.athletes_data
  current_bracket,  \* st.session_state.current_bracket
  ui                \* what the last run of the script rendered and did

vars == <<pc, given, athletes, rounds, round_names, initial_bracket,
          fn_pc, fn_n, fn_size, half_order, full_order, fn_order,
          athletes_data, current_bracket, ui>>

bracket_vars == <<pc, given, athletes, rounds, round_names, initial_bracket>>

fn_vars == <<fn_pc, fn_n, fn_size, half_order, full_order, fn_order>>

session_vars == <<athletes_data, current_bracket, ui>>

\* 'current_bracket' not in st.session_state
NoBracket == [present |-> FALSE, athletes |-> << >>, rounds |-> << >>, round_names |-> << >>]

\* 'athletes_data' not in st.session_state
NoData == [present |-> FALSE, list |-> << >>]

\* nothing rendered yet
NoUi == [rendered |-> FALSE]

SessionIdle ==
  /\ athletes_data = NoData
  /\ current_bracket = NoBracket
  /\ ui = NoUi

\* ----------------------------------------------------------------- inputs
\* seed values athletes carry when handed over: the constructor default,
\* the spreadsheet row number, row numbers of a filtered list, descending
\* values, and one value shared by all
SeedPatterns == {"default", "row", "filtered", "descending", "equal"}

InputSeed(pattern, i) ==
  CASE pattern = "default" -> 0
    [] pattern = "row" -> i
    [] pattern = "filtered" -> 3 * i + 2
    [] pattern = "descending" -> 1000 - i
    [] OTHER -> 7

\* team labels: all blank, one team, two alternating teams, and two teams
\* of unequal size whose members come in clusters
TeamPatterns == {"blank", "single", "alternating", "clustered"}

InputTeam(pattern, i) ==
  CASE pattern = "blank" -> ""
    [] pattern = "single" -> "A"
    [] pattern = "clustered" -> IF i % 3 = 0 THEN "B" ELSE "A"
    [] OTHER -> IF i % 2 = 1 THEN "A" ELSE "B"

InputAthletes(n, sp, tp) ==
  [i \in 1..n |-> [name |-> i, team |-> InputTeam(tp, i), seed |-> InputSeed(sp, i)]]

\* ------------------------------------------------- bracket construction
BracketIdle ==
  /\ pc = "idle"
  /\ given = << >>
  /\ athletes = << >>
  /\ rounds = << >>
  /\ round_names = << >>
  /\ initial_bracket = << >>

FnIdle ==
  /\ fn_pc = "idle"
  /\ fn_n = 0
  /\ fn_size = <<0, 0>>
  /\ half_order = << >>
  /\ full_order = << >>
  /\ fn_order = << >>

Init ==
  /\ pc = "new"
  /\ \E n \in 0..MaxN, sp \in SeedPatterns, tp \in TeamPatterns :
       athletes = InputAthletes(n, sp, tp)
  /\ given = athletes
  /\ rounds = << >>
  /\ round_names = << >>
  /\ initial_bracket = << >>
  /\ FnIdle
  /\ SessionIdle

\* __init__ that builds whenever there is an athlete (len(athletes) >= 1)
Construct_build_single ==
  /\ pc = "new"
  /\ rounds' = << >>
  /\ round_names' = << >>
  /\ pc' = IF Len(athletes) >= 1 THEN "reassign_seeds" ELSE "done"
  /\ UNCHANGED <<given, athletes, initial_bracket, fn_vars, session_vars>>

\* TournamentBracket.__init__ up to the call of _build_bracket
Construct ==
  /\ pc = "new"
  /\ rounds' = << >>
  /\ round_names' = << >>
  /\ pc' = IF Len(athletes) > 1 THEN "reassign_seeds" ELSE "done"
  /\ UNCHANGED <<given, athletes, initial_bracket, fn_vars, session_vars>>

\* _build_bracket line 404
ReassignSeeds ==
  /\ pc = "reassign_seeds"
  /\ athletes' = reassign_seeds(athletes)
  /\ pc' = "create_initial_bracket"
  /\ UNCHANGED <<given, rounds, round_names, initial_bracket, fn_vars, session_vars>>

\* _build_bracket line 407
CreateInitialBracket ==
  /\ pc = "create_initial_bracket"
  /\ IF create_initial_bracket_raises(athletes)
     THEN /\ pc' = "raised"
          /\ UNCHANGED initial_bracket
     ELSE /\ initial_bracket' = create_initial_bracket(athletes)
          /\ pc' = "create_first_round"
  /\ UNCHANGED <<given, athletes, rounds, round_names, fn_vars, session_vars>>

\* round 1 named after the number of athletes instead of the bracket size
CreateFirstRound_named_by_athletes ==
  /\ pc = "create_first_round"
  /\ rounds' = Append(rounds, create_first_round(initial_bracket))
  /\ round_names' = Append(round_names, get_round_name(Len(athletes)))
  /\ pc' = "create_subsequent_rounds"
  /\ UNCHANGED <<given, athletes, initial_bracket, fn_vars, session_vars>>

\* _build_bracket lines 410-414
CreateFirstRound ==
  /\ pc = "create_first_round"
  /\ rounds' = Append(rounds, create_first_round(initial_bracket))
  /\ round_names' = Append(round_names,
                           get_round_name(calculate_bracket_size(Len(athletes))[1]))
  /\ pc' = "create_subsequent_rounds"
  /\ UNCHANGED <<given, athletes, initial_bracket, fn_vars, session_vars>>

\* _create_subsequent_rounds with its counter starting again at 1
CreateSubsequentRounds_restart ==
  /\ pc = "create_subsequent_rounds"
  /\ LET later == subsequent_rounds(rounds[Len(rounds)], 1)
     IN /\ rounds' = rounds \o later.rounds
        /\ round_names' = round_names \o later.names
  /\ pc' = "done"
  /\ UNCHANGED <<given, athletes, initial_bracket, fn_vars, session_vars>>

\* _build_bracket line 417
CreateSubsequentRounds ==
  /\ pc = "create_subsequent_rounds"
  /\ LET later == subsequent_rounds(rounds[Len(rounds)], CountBothRounds(rounds) + 1)
     IN /\ rounds' = rounds \o later.rounds
        /\ round_names' = round_names \o later.names
  /\ pc' = "done"
  /\ UNCHANGED <<given, athletes, initial_bracket, fn_vars, session_vars>>

Next ==
  \/ Construct
  \/ ReassignSeeds
  \/ CreateInitialBracket
  \/ CreateFirstRound
  \/ CreateSubsequentRounds

Spec == Init /\ [][Next]_vars

\* the constructor is one synchronous call: it runs until it returns or
\* raises; checked for lists of at most MaxLiveN athletes
InitLive == Init /\ Len(athletes) <= MaxLiveN

SpecFair == InitLive /\ [][Next]_vars /\ WF_vars(Next)

\* ---------------------------------- a second construction, same athletes
\* _generate_bracket line 1117, called once more: the finished bracket is
\* what st.session_state.current_bracket holds, and a new TournamentBracket
\* is constructed over a list with the same names and teams in the same
\* order: the same Athlete objects (seeds as the first construction left
\* them) or athletes carrying any other seeds
GenerateAgain ==
  /\ pc = "done"
  /\ ~current_bracket.present
  /\ current_bracket' = [present |-> TRUE, athletes |-> given,
                         rounds |-> rounds, round_names |-> round_names]
  /\ \/ athletes' = athletes
     \/ \E sp \in SeedPatterns :
          athletes' = [i \in 1..Len(athletes) |->
                         [athletes[i] EXCEPT !.seed = InputSeed(sp, i)]]
  /\ given' = athletes'
  /\ pc' = "new"
  /\ UNCHANGED <<rounds, round_names, initial_bracket, fn_vars, athletes_data, ui>>

NextAgain ==
  \/ Construct
  \/ ReassignSeeds
  \/ CreateInitialBracket
  \/ CreateFirstRound
  \/ CreateSubsequentRounds
  \/ GenerateAgain

SpecAgain == Init /\ [][NextAgain]_vars

\* ---------------------------------------------------------- application
\* TournamentBracket(athletes, category) as one call: the bracket it returns.
\* Slots of its matches hold positions in the list it was given.
TournamentBracket(aths) ==
  IF Len(aths) > 1
  THEN LET reseeded == reassign_seeds(aths)
           first_round == create_first_round(create_initial_bracket(reseeded))
           later == subsequent_rounds(first_round, CountBoth(first_round) + 1)
       IN [present |-> TRUE, athletes |-> reseeded,
           rounds |-> <<first_round>> \o later.rounds,
           round_names |->
             <<get_round_name(calculate_bracket_size(Len(aths))[1])>> \o later.names]
  ELSE [present |-> TRUE, athletes |-> aths, rounds |-> << >>, round_names |-> << >>]

\* cell values of the spreadsheet, already in the form sanitize_text gives
Genders == {"", "FEMININO", "MASCULINO"}

Belts == {"", "AZUL"}

\* a row: has a name in column 0 or not, gender, belt; one age and weight
Rows ==
  {[named |-> FALSE, gender |-> "", belt |-> ""]}
  \cup [named : {TRUE}, gender : Genders, belt : Belts]

RECURSIVE SheetsOfLength(_)
SheetsOfLength(n) ==
  IF n = 0 THEN {<< >>}
  ELSE {Append(s, r) : s \in SheetsOfLength(n - 1), r \in Rows}

\* the non-empty data frames a load can return
Sheets == UNION {SheetsOfLength(n) : n \in 1..MaxRows}

\* AthleteProcessor.process_dataframe: rows with a name, seed = row number
process_dataframe(df) ==
  LET named == SelectSeq([i \in 1..Len(df) |-> i], LAMBDA i : df[i].named)
  IN [k \in 1..Len(named) |->
        [name |-> named[k], team |-> "EQUIPE NAO INFORMADA", seed |-> named[k],
         gender |-> df[named[k]].gender, belt |-> df[named[k]].belt,
         age_category |-> "ADULTO", weight_category |-> "LEVE"]]

\* AthleteFilter.get_available_options: the non-empty values present
OptionsOf(aths, field) ==
  {aths[i][field] : i \in 1..Len(aths)} \ {""}

\* what st.selectbox can return: one of the options, or the placeholder
Selectable(options, placeholder) ==
  IF options = {} THEN {placeholder} ELSE options

\* AthleteFilter.filter_by_*
filter_by(aths, field, value) == SelectSeq(aths, LAMBDA a : a[field] = value)

\* IBJJFApp._apply_filters
apply_filters(aths, gender, belt, age, weight) ==
  filter_by(filter_by(filter_by(filter_by(aths, "gender", gender), "belt", belt),
                      "age_category", age), "weight_category", weight)

\* render_generate_button that offers the button for every list
render_generate_button_always(filtered_athletes, click) ==
  [found |-> Len(filtered_athletes), button |-> TRUE, warning |-> "", clicked |-> click]

\* SidebarManager.render_generate_button: what it shows, and whether it
\* returns True (click: the Gerar Chave button was pressed for this run)
render_generate_button(filtered_athletes, click) ==
  IF Len(filtered_athletes) >= 2
  THEN [found |-> Len(filtered_athletes), button |-> TRUE, warning |-> "",
        clicked |-> click]
  ELSE IF Len(filtered_athletes) = 1
  THEN [found |-> 1, button |-> FALSE, warning |-> "Apenas 1 atleta encontrado",
        clicked |-> FALSE]
  ELSE [found |-> 0, button |-> FALSE,
        warning |-> "Nenhum atleta encontrado com estes filtros", clicked |-> FALSE]

\* the Athlete objects of athletes_data after TournamentBracket(filtered) has
\* reassigned the seeds of those among them that are in the filtered list
SeedsAfter(all, bracket) ==
  [i \in 1..Len(all) |->
     IF \E k \in 1..Len(bracket.athletes) : bracket.athletes[k].name = all[i].name
     THEN [all[i] EXCEPT !.seed =
             bracket.athletes[CHOOSE k \in 1..Len(bracket.athletes) :
                                bracket.athletes[k].name = all[i].name].seed]
     ELSE all[i]]

\* IBJJFApp._handle_filter_section for the data in the session, the four
\* selections and the state of the generate button
handle_filter_section(data, gender, belt, age, weight, click) ==
  LET filtered == apply_filters(data.list, gender, belt, age, weight)
      shown == render_generate_button(filtered, click)
      bracket == TournamentBracket(filtered)
  IN [ui |-> [rendered |-> TRUE, filters |-> TRUE, found |-> shown.found,
              button |-> shown.button, warning |-> shown.warning,
              constructed |-> shown.clicked,
              constructed_over |-> IF shown.clicked THEN Len(filtered) ELSE -1],
      athletes_data |-> IF shown.clicked
                        THEN [data EXCEPT !.list = SeedsAfter(data.list, bracket)]
                        ELSE data,
      current_bracket |-> IF shown.clicked THEN bracket ELSE current_bracket]

\* one run of the script (IBJJFApp.run) with the session data as it is after
\* the loading section: filter section if there is data, then the main area
Rerun(data, click) ==
  IF data.present
  THEN \E gender \in Selectable(OptionsOf(data.list, "gender"), "Nenhum") :
         LET gender_filtered == filter_by(data.list, "gender", gender)
         IN \E belt \in Selectable(OptionsOf(gender_filtered, "belt"), "Nenhuma") :
              LET belt_filtered == filter_by(gender_filtered, "belt", belt)
              IN \E age \in Selectable(OptionsOf(belt_filtered, "age_category"), "Nenhuma") :
                   LET age_filtered == filter_by(belt_filtered, "age_category", age)
                   IN \E weight \in Selectable(OptionsOf(age_filtered, "weight_category"),
                                               "Nenhuma") :
                        LET done == handle_filter_section(data, gender, belt, age,
                                                          weight, click)
                        IN /\ ui' = done.ui
                           /\ athletes_data' = done.athletes_data
                           /\ current_bracket' = done.current_bracket
  ELSE /\ ui' = [rendered |-> TRUE, filters |-> FALSE, found |-> -1, button |-> FALSE,
                 warning |-> "", constructed |-> FALSE, constructed_over |-> -1]
       /\ athletes_data' = data
       /\ UNCHANGED current_bracket

InitApp ==
  /\ BracketIdle
  /\ FnIdle
  /\ SessionIdle

\* Carregar Dados pressed and the sheet loaded: a non-empty data frame
LoadData ==
  /\ \E df \in Sheets :
       Rerun([present |-> TRUE, list |-> process_dataframe(df)], FALSE)
  /\ UNCHANGED <<bracket_vars, fn_vars>>

\* Carregar Dados pressed without a URL, or the load raised, or the data
\* frame was empty; or a selection was changed: the session data stay
ChangeSelection ==
  /\ Rerun(athletes_data, FALSE)
  /\ UNCHANGED <<bracket_vars, fn_vars>>

\* Gerar Chave pressed
ClickGenerate ==
  /\ Rerun(athletes_data, TRUE)
  /\ UNCHANGED <<bracket_vars, fn_vars>>

NextApp ==
  \/ LoadData
  \/ ChangeSelection
  \/ ClickGenerate

SpecApp == InitApp /\ [][NextApp]_vars

\* ------------------------------ bracket size and seeding order on their own
InitSeeding ==
  /\ BracketIdle
  /\ SessionIdle
  /\ fn_pc = "size"
  /\ fn_n \in 1..MaxCount
  /\ fn_size = <<0, 0>>
  /\ half_order = << >>
  /\ full_order = << >>
  /\ fn_order = << >>

\* _create_initial_bracket line 275
CalculateBracketSize ==
  /\ fn_pc = "size"
  /\ fn_size' = calculate_bracket_size(fn_n)
  /\ fn_pc' = "order"
  /\ UNCHANGED <<fn_n, half_order, full_order, fn_order, bracket_vars, session_vars>>

\* generate_seeding_order lines 186-187
SeedingLookup ==
  /\ fn_pc = "order"
  /\ fn_size[1] \in TableSizes
  /\ fn_order' = seeding_orders(fn_size[1])
  /\ fn_pc' = "done"
  /\ UNCHANGED <<fn_n, fn_size, half_order, full_order, bracket_vars, session_vars>>

\* generate_seeding_order lines 190-193
SeedingRecurse ==
  /\ fn_pc = "order"
  /\ fn_size[1] \notin TableSizes
  /\ half_order' = generate_seeding_order(fn_size[1] \div 2)
  /\ full_order' = << >>
  /\ fn_pc' = "extend"
  /\ UNCHANGED <<fn_n, fn_size, fn_order, bracket_vars, session_vars>>

\* generate_seeding_order lines 194-195, one iteration
SeedingExtend ==
  /\ fn_pc = "extend"
  /\ Len(full_order) < 2 * Len(half_order)
  /\ LET position == half_order[Len(full_order) \div 2 + 1]
     IN full_order' = full_order \o <<position, fn_size[1] - 1 - position>>
  /\ UNCHANGED <<fn_pc, fn_n, fn_size, half_order, fn_order, bracket_vars, session_vars>>

\* generate_seeding_order line 197
SeedingReturn ==
  /\ fn_pc = "extend"
  /\ Len(full_order) = 2 * Len(half_order)
  /\ fn_order' = full_order
  /\ fn_pc' = "done"
  /\ UNCHANGED <<fn_n, fn_size, half_order, full_order, bracket_vars, session_vars>>

NextSeeding ==
  \/ CalculateBracketSize
  \/ SeedingLookup
  \/ SeedingRecurse
  \/ SeedingExtend
  \/ SeedingReturn

SpecSeeding == InitSeeding /\ [][NextSeeding]_vars

\* ----------------------------------------------------------------- typing
TypeOK ==
  /\ pc \in {"idle", "new", "reassign_seeds", "create_initial_bracket",
             "create_first_round", "create_subsequent_rounds", "done", "raised"}
  /\ fn_pc \in {"idle", "size", "order", "extend", "done"}
  /\ Len(athletes) = Len(given)
  /\ \A i \in 1..Len(athletes) : athletes[i].name = i

\* ------------------------------------------------- vocabulary of the claims
RECURSIVE IsPowerOfTwo(_)
IsPowerOfTwo(b) == b = 1 \/ (b > 1 /\ b % 2 = 0 /\ IsPowerOfTwo(b \div 2))

\* the smallest power of two that is >= n (n >= 1)
SmallestPowerOfTwoAtLeast(n) ==
  CHOOSE b \in n..(2 * n) : IsPowerOfTwo(b) /\ \A c \in n..(b - 1) : ~IsPowerOfTwo(c)

RECURSIVE Log2(_)
Log2(b) == IF b <= 1 THEN 0 ELSE 1 + Log2(b \div 2)

NumAthletes == Len(athletes)

ExpectedSize == SmallestPowerOfTwoAtLeast(NumAthletes)

ExpectedByes == ExpectedSize - NumAthletes

Placed == pc \in {"create_first_round", "create_subsequent_rounds", "done"}

FirstRoundBuilt == pc \in {"create_subsequent_rounds", "done"}

Populated(m) == Cardinality({x \in {1, 2} : (IF x = 1 THEN m.athlete1 ELSE m.athlete2) # None})

TheOnlyAthlete(m) == IF m.athlete1 # None THEN m.athlete1 ELSE m.athlete2

\* the placement before bye rebalancing, for the athletes as they are now
NaiveNow ==
  naive_placement(sorted_by_seed(athletes), generate_seeding_order(ExpectedSize), ExpectedSize)

\* sibling pairs (0-based k) of a placement with exactly one occupied slot
ByePairs(bracket) ==
  {k \in 0..(Len(bracket) \div 2 - 1) :
     (bracket[2 * k + 1] # None) # (bracket[2 * k + 2] # None)}

ByeHolder(bracket, k) ==
  IF bracket[2 * k + 1] # None THEN bracket[2 * k + 1] ELSE bracket[2 * k + 2]

\* match numbers in reading order: round by round, left to right
RECURSIVE NumbersOf(_)
NumbersOf(rs) ==
  IF rs = << >> THEN << >>
  ELSE [j \in 1..Len(Head(rs)) |-> Head(rs)[j].number] \o NumbersOf(Tail(rs))

NonZero(x) == x # 0

\* ------------------------------------------------------------------ claims

\* C1: for N >= 2, round 1 built from the final placement has exactly
\* byes = bracket_size - N bye matches, and the athletes who win them are
\* exactly those with seeds 1..byes; re-detecting the bye pairs on the final
\* placement gives the same athletes.
C1_ByesGoToTopSeeds ==
  (FirstRoundBuilt /\ NumAthletes >= 2) =>
    LET r1 == rounds[1]
        B == {j \in 1..Len(r1) : Populated(r1[j]) = 1}
        P == ByePairs(initial_bracket)
    IN /\ Cardinality(B) = ExpectedByes
       /\ \A j \in B : r1[j].winner # None
       /\ {athletes[r1[j].winner].seed : j \in B} = 1..ExpectedByes
       /\ Cardinality(P) = ExpectedByes
       /\ {athletes[ByeHolder(initial_bracket, k)].seed : k \in P} = 1..ExpectedByes
       /\ \A j \in 1..Len(r1) : /\ r1[j].athlete1 = initial_bracket[2 * j - 1]
                                /\ r1[j].athlete2 = initial_bracket[2 * j]

\* a bracket with byes whose rebalancing moved athletes away from the naive placement
C1_Witness ==
  /\ pc = "done"
  /\ NumAthletes >= 2
  /\ ExpectedByes >= 3
  /\ initial_bracket # NaiveNow
  /\ \E j \in 1..Len(rounds[1]) :
       rounds[1][j].winner # None /\ athletes[rounds[1][j].winner].seed = ExpectedByes

\* C2: for n in {1,2,4,...,128} generate_seeding_order(n) is a permutation of
\* 0..n-1 starting with 0, and for n >= 2 it is the table entry for n/2 with
\* each value p replaced, in order, by the pair p, n-1-p.
C2_TableIsDoubling ==
  (fn_pc = "done" /\ fn_size[1] <= 128) =>
    LET n == fn_size[1]
        half == seeding_orders(n \div 2)
    IN /\ Len(fn_order) = n
       /\ {fn_order[i] : i \in 1..n} = 0..(n - 1)
       /\ fn_order[1] = 0
       /\ n >= 2 =>
            /\ Len(half) = n \div 2
            /\ \A i \in 1..(n \div 2) : /\ fn_order[2 * i - 1] = half[i]
                                        /\ fn_order[2 * i] = n - 1 - half[i]

C2_Witness ==
  /\ fn_pc = "done"
  /\ fn_size[1] = 128
  /\ Len(fn_order) = 128
  /\ fn_order[128] = 85

\* C3: for N >= 1 _calculate_bracket_size returns the smallest power of two
\* >= N and byes = bracket_size - N, with 0 <= byes < bracket_size / 2.
C3_BracketSize ==
  (fn_pc \in {"order", "extend", "done"}) =>
    /\ fn_size[1] = SmallestPowerOfTwoAtLeast(fn_n)
    /\ fn_size[2] = fn_size[1] - fn_n
    /\ 0 <= fn_size[2]
    /\ 2 * fn_size[2] < fn_size[1]

C3_Witness ==
  /\ fn_pc = "order"
  /\ fn_n = 9
  /\ fn_size = <<16, 7>>

\* C4: for N >= 2 the bracket has log2(bracket_size) rounds, round k (0-based)
\* has bracket_size / 2^(k+1) matches and the last round has one match; for
\* N = 1 the bracket has no rounds.
C4_RoundsHalve ==
  (pc = "done" /\ NumAthletes >= 1) =>
    IF NumAthletes >= 2
    THEN /\ Len(rounds) = Log2(ExpectedSize)
         /\ \A k \in 1..Len(rounds) : Len(rounds[k]) * Pow2(k) = ExpectedSize
         /\ \A k \in 2..Len(rounds) : 2 * Len(rounds[k]) = Len(rounds[k - 1])
         /\ Len(rounds[Len(rounds)]) = 1
    ELSE rounds = << >>

C4_Witness ==
  /\ pc = "done"
  /\ NumAthletes = 9
  /\ Len(rounds) = 4
  /\ Len(rounds[1]) = 8
  /\ Len(rounds[4]) = 1

\* C5: no match of round 1 has both slots empty: every sibling pair of the
\* final placement has an occupied slot.
C5_NoEmptyFirstRoundMatch ==
  /\ Placed =>
       \A k \in 0..(Len(initial_bracket) \div 2 - 1) :
         initial_bracket[2 * k + 1] # None \/ initial_bracket[2 * k + 2] # None
  /\ (FirstRoundBuilt /\ rounds # << >>) =>
       \A j \in 1..Len(rounds[1]) : Populated(rounds[1][j]) >= 1

\* a rebalanced placement with empty slots, turned into round 1
C5_Witness ==
  /\ FirstRoundBuilt
  /\ NumAthletes = 6
  /\ initial_bracket # NaiveNow
  /\ Cardinality({p \in 1..Len(initial_bracket) : initial_bracket[p] = None}) = 2
  /\ Len(rounds[1]) = 4

\* C6: read round by round and left to right, the nonzero match numbers are
\* exactly 1, 2, ..., M in increasing order.
C6_NumbersContiguous ==
  FirstRoundBuilt =>
    LET numbered == SelectSeq(NumbersOf(rounds), NonZero)
    IN \A i \in 1..Len(numbered) : numbered[i] = i

\* round 2 has a numbered match that continues the count of round 1
C6_Witness ==
  /\ pc = "done"
  /\ Len(rounds) >= 2
  /\ CountBoth(rounds[1]) >= 1
  /\ \E j \in 1..Len(rounds[2]) : rounds[2][j].number = CountBoth(rounds[1]) + 1

\* C7: a match has a nonzero number exactly when both of its slots are
\* populated, a numbered match has no winner, and a match with at most one
\* populated slot has number 0.
C7_NumberedIffBoth ==
  FirstRoundBuilt =>
    \A r \in 1..Len(rounds) : \A j \in 1..Len(rounds[r]) :
      LET m == rounds[r][j]
      IN /\ (m.number # 0) <=> (Populated(m) = 2)
         /\ m.number # 0 => m.winner = None
         /\ Populated(m) <= 1 => m.number = 0

\* numbered matches in rounds 1 and 2 next to unnumbered one-slot matches
C7_Witness ==
  /\ pc = "done"
  /\ Len(rounds) >= 2
  /\ \E j \in 1..Len(rounds[1]) : rounds[1][j].number # 0
  /\ \E j \in 1..Len(rounds[1]) : Populated(rounds[1][j]) = 1 /\ rounds[1][j].number = 0
  /\ \E j \in 1..Len(rounds[2]) : rounds[2][j].number # 0

\* C8 as stated: every match, in any round, with exactly one populated slot
\* has the populated athlete as winner and number 0.
C8_OneSlotIsBye ==
  FirstRoundBuilt =>
    \A r \in 1..Len(rounds) : \A j \in 1..Len(rounds[r]) :
      Populated(rounds[r][j]) = 1 =>
        /\ rounds[r][j].winner = TheOnlyAthlete(rounds[r][j])
        /\ rounds[r][j].number = 0

\* C8 amended: a round-1 match with exactly one populated slot has the
\* populated athlete as winner and number 0; a later-round match with exactly
\* one populated slot has number 0 and no winner.
C8_OneSlotIsByeInRoundOne ==
  FirstRoundBuilt =>
    \A r \in 1..Len(rounds) : \A j \in 1..Len(rounds[r]) :
      Populated(rounds[r][j]) = 1 =>
        /\ rounds[r][j].number = 0
        /\ rounds[r][j].winner = IF r = 1 THEN TheOnlyAthlete(rounds[r][j]) ELSE None

\* one-slot matches in round 1 (both sides) and in round 2
C8_Witness ==
  /\ pc = "done"
  /\ Len(rounds) >= 2
  /\ \E j \in 1..Len(rounds[1]) :
       rounds[1][j].athlete1 = None /\ rounds[1][j].winner = rounds[1][j].athlete2
       /\ rounds[1][j].athlete2 # None
  /\ \E j \in 1..Len(rounds[1]) :
       rounds[1][j].athlete2 = None /\ rounds[1][j].winner = rounds[1][j].athlete1
       /\ rounds[1][j].athlete1 # None
  /\ \E j \in 1..Len(rounds[2]) : Populated(rounds[2][j]) = 1

\* C9: after construction over N >= 1 athletes, whatever seeds they carried,
\* the athlete at 1-based input position i has seed i.
C9_SeedIsInputPosition ==
  (pc = "done" /\ NumAthletes >= 1) =>
    \A i \in 1..NumAthletes : athletes[i].name = given[i].name /\ athletes[i].seed = i

\* C10: for N >= 2 the final placement has length bracket_size, every athlete
\* occupies exactly one slot and exactly byes slots are empty.
C10_PlacementIsComplete ==
  (Placed /\ NumAthletes >= 2) =>
    /\ Len(initial_bracket) = ExpectedSize
    /\ \A a \in 1..NumAthletes :
         Cardinality({p \in 1..Len(initial_bracket) : initial_bracket[p] = a}) = 1
    /\ \A p \in 1..Len(initial_bracket) : initial_bracket[p] \in 0..NumAthletes
    /\ Cardinality({p \in 1..Len(initial_bracket) : initial_bracket[p] = None}) = ExpectedByes

\* a rebuilt placement: byes present and athletes moved by the rebalancing
C10_Witness ==
  /\ pc = "create_first_round"
  /\ NumAthletes = 11
  /\ initial_bracket # NaiveNow
  /\ Cardinality({p \in 1..Len(initial_bracket) : initial_bracket[p] = None}) = 5

\* slots (0-based) of the final placement holding the athlete with seed s
SlotsOfSeed(s) ==
  {p - 1 : p \in {q \in 1..Len(initial_bracket) :
                    initial_bracket[q] # None /\ athletes[initial_bracket[q]].seed = s}}

\* C11: for N >= 2 and every power of two m with 2 <= m <= N, the seeds 1..m
\* of the final placement lie in m distinct blocks of bracket_size / m
\* consecutive slots (m = 2: opposite halves, m = 4: four quarters).
C11_TopSeedsSeparated ==
  (Placed /\ NumAthletes >= 2) =>
    /\ \A s \in 1..NumAthletes : Cardinality(SlotsOfSeed(s)) = 1
    /\ \A m \in 2..NumAthletes :
         IsPowerOfTwo(m) =>
           Cardinality({(CHOOSE p \in SlotsOfSeed(s) : TRUE) \div (ExpectedSize \div m) :
                          s \in 1..m}) = m

\* a rebalanced 16-slot placement with seeds 1..8 in eight distinct pairs of slots
C11_Witness ==
  /\ pc = "create_first_round"
  /\ NumAthletes = 13
  /\ initial_bracket # NaiveNow
  /\ Cardinality({(CHOOSE p \in SlotsOfSeed(s) : TRUE) \div 2 : s \in 1..8}) = 8

\* C12: two constructions from the same ordered athlete list (same names,
\* same teams) give identical brackets: the same rounds, the same athlete in
\* every slot, the same winners, numbers and round names.
C12_SameInputSameBracket ==
  (pc = "done" /\ current_bracket.present) =>
    /\ Len(rounds) = Len(current_bracket.rounds)
    /\ rounds = current_bracket.rounds
    /\ round_names = current_bracket.round_names

\* the second construction has finished over athletes that arrived with other
\* seeds than those of the first, and the bracket has byes and three rounds
C12_Witness ==
  /\ pc = "done"
  /\ current_bracket.present
  /\ NumAthletes = 5
  /\ given # current_bracket.athletes
  /\ [i \in 1..NumAthletes |-> given[i].name] =
       [i \in 1..NumAthletes |-> current_bracket.athletes[i].name]
  /\ [i \in 1..NumAthletes |-> given[i].team] =
       [i \in 1..NumAthletes |-> current_bracket.athletes[i].team]
  /\ Len(rounds) = 3

\* C13: construction is total: for every athlete list (blank teams, any
\* incoming seeds) it never raises and it finishes with a bracket, a single
\* athlete giving a bracket without rounds.
C13_ConstructionIsTotal ==
  /\ [](pc # "raised")
  /\ [](pc = "done" /\ NumAthletes = 1 => rounds = << >> /\ round_names = << >>)
  /\ <>(pc = "done")

\* a finished bracket over athletes with blank teams and descending seeds
C13_Witness ==
  /\ pc = "done"
  /\ NumAthletes = 5
  /\ given[1].team = ""
  /\ given[1].seed > given[2].seed
  /\ Len(rounds) = 3
  /\ Len(round_names) = 3

\* C14: the bracket builder is never invoked with an empty filtered list: a
\* run whose filters select no athlete shows the "no athletes" warning,
\* offers no generate button and constructs no bracket.
C14_NoBracketForEmptyCategory ==
  (ui.rendered /\ ui.filters) =>
    /\ ui.constructed => ui.constructed_over >= 1
    /\ ui.found = 0 =>
         /\ ui.warning = "Nenhum atleta encontrado com estes filtros"
         /\ ~ui.button
         /\ ~ui.constructed

\* Gerar Chave is pressed while the selected category of loaded, non-empty
\* data has no athlete, after a bracket was generated for another sheet
C14_Witness ==
  /\ ui.rendered
  /\ ui.filters
  /\ ui.found = 0
  /\ Len(athletes_data.list) >= 1
  /\ current_bracket.present
  /\ ~ui.constructed

\* the naming table as the claim words it
EnglishRoundName(count) ==
  CASE count = 2 -> <<"Final">>
    [] count = 4 -> <<"Semifinal">>
    [] count = 8 -> <<"Quarterfinal">>
    [] count = 16 -> <<"Round of 16">>
    [] count = 32 -> <<"Round of 32">>
    [] count = 64 -> <<"Round of 64">>
    [] count = 128 -> <<"Round of 128">>
    [] count = 256 -> <<"Round of 256">>
    [] OTHER -> <<"Round of", count>>

\* the naming table with the names the program displays
DisplayedRoundName(count) ==
  CASE count = 2 -> <<"FINAL">>
    [] count = 4 -> <<"SEMIFINAIS">>
    [] count = 8 -> <<"QUARTAS DE FINAL">>
    [] count = 16 -> <<"OITAVAS DE FINAL">>
    [] count = 32 -> <<"16-AVOS DE FINAL">>
    [] count = 64 -> <<"32-AVOS DE FINAL">>
    [] count = 128 -> <<"64-AVOS DE FINAL">>
    [] count = 256 -> <<"128-AVOS DE FINAL">>
    [] OTHER -> <<"RODADA DE", count>>

\* C15 as stated: round_names[r] is the table entry for 2 x (matches of
\* round r), the table giving Final, Semifinal, Quarterfinal, Round of 16,
\* ..., Round of 256, else Round of N; one name per round, the last Final.
C15_RoundNamesEnglish ==
  FirstRoundBuilt =>
    /\ Len(round_names) = Len(rounds)
    /\ \A r \in 1..Len(rounds) : round_names[r] = EnglishRoundName(2 * Len(rounds[r]))
    /\ (pc = "done" /\ rounds # << >>) => round_names[Len(round_names)] = <<"Final">>

\* C15 amended: the same with the table the program holds: FINAL,
\* SEMIFINAIS, QUARTAS DE FINAL, OITAVAS DE FINAL, 16-AVOS DE FINAL, ...,
\* 128-AVOS DE FINAL, else RODADA DE N.
C15_RoundNamesDisplayed ==
  FirstRoundBuilt =>
    /\ Len(round_names) = Len(rounds)
    /\ \A r \in 1..Len(rounds) : round_names[r] = DisplayedRoundName(2 * Len(rounds[r]))
    /\ (pc = "done" /\ rounds # << >>) => round_names[Len(round_names)] = <<"FINAL">>

\* a finished five-round bracket
C15_Witness ==
  /\ pc = "done"
  /\ NumAthletes = 17
  /\ Len(rounds) = 5
  /\ round_names = <<<<"16-AVOS DE FINAL">>, <<"OITAVAS DE FINAL">>,
                     <<"QUARTAS DE FINAL">>, <<"SEMIFINAIS">>, <<"FINAL">>>>

\* C16 as stated: construction only reads its input: the athlete list and
\* every field of every athlete, the seed included, stay as they were given.
C16_InputUntouched == athletes = given

\* C16 amended: the list keeps its length and order and every athlete keeps
\* every field but the seed; the seed is either the one given or, once
\* _reassign_seeds has run (N >= 2), the athlete's 1-based position.
C16_OnlySeedsChange ==
  /\ Len(athletes) = Len(given)
  /\ \A i \in 1..Len(athletes) :
       /\ athletes[i].name = given[i].name
       /\ athletes[i].team = given[i].team
       /\ athletes[i].seed \in {given[i].seed, i}
  /\ (NumAthletes >= 2 /\ pc \in {"create_initial_bracket", "create_first_round",
                                  "create_subsequent_rounds", "done"}) =>
       \A i \in 1..NumAthletes : athletes[i].seed = i

\* a finished construction that overwrote the seeds the athletes came with
C16_Witness ==
  /\ pc = "done"
  /\ NumAthletes = 3
  /\ given[1].seed = 999
  /\ athletes[1].seed = 1
  /\ athletes[3].seed = 3
  /\ athletes # given

\* C17 as stated: the builder offers a team-aware policy under which seeds
\* 1..N follow the round-robin draw over the teams.  The builder has one
\* construction per athlete list and nothing to select a policy with, so the
\* draw would have to be what that construction assigns.
C17_TeamAwareSeeds ==
  (pc = "done" /\ NumAthletes >= 2) =>
    \A i \in 1..NumAthletes : athletes[i].seed = TeamAwareSeed(given, i)

\* C17 amended: there is one policy: for N >= 2 the athlete at input position
\* i gets seed i whatever the teams are, and the bracket is the one the same
\* number of athletes without team labels get.
C17_SeedsIgnoreTeams ==
  (pc = "done" /\ NumAthletes >= 2) =>
    /\ \A i \in 1..NumAthletes : athletes[i].seed = i
    /\ rounds = TournamentBracket(InputAthletes(NumAthletes, "default", "blank")).rounds

\* a finished bracket over clustered teams, where the team-aware draw would
\* have given the second athlete (a team-mate of the first) a later seed
C17_Witness ==
  /\ pc = "done"
  /\ NumAthletes = 6
  /\ given[1].team = "A" /\ given[2].team = "A" /\ given[3].team = "B"
  /\ TeamAwareSeed(given, 2) = 3
  /\ TeamAwareSeed(given, 3) = 2
  /\ athletes[2].seed = 2

\* C18: when N >= 2 is a power of two the rebalancing changes nothing: the
\* final placement is the naive one, the athlete with seed i is at slot
\* order(N)[i-1], every round-1 match has both athletes and the round-1
\* matches are numbered 1..N/2 from left to right.  For N = 4 round 1 is
\* (seed 1 v seed 3) number 1, (seed 4 v seed 2) number 2, and the final has
\* both slots empty and number 0.
C18_PowerOfTwoIsNaive ==
  (NumAthletes >= 2 /\ IsPowerOfTwo(NumAthletes)) =>
    /\ Placed =>
         /\ initial_bracket = NaiveNow
         /\ bye_positions_of(NaiveNow) = {}
         /\ Len(initial_bracket) = NumAthletes
         /\ \A i \in 1..NumAthletes :
              /\ initial_bracket[generate_seeding_order(NumAthletes)[i] + 1] = i
              /\ athletes[i].seed = i
    /\ FirstRoundBuilt =>
         /\ Len(rounds[1]) * 2 = NumAthletes
         /\ \A j \in 1..Len(rounds[1]) :
              /\ Populated(rounds[1][j]) = 2
              /\ rounds[1][j].number = j
              /\ rounds[1][j].winner = None
    /\ (pc = "done" /\ NumAthletes = 4) =>
         rounds = << <<[athlete1 |-> 1, athlete2 |-> 3, number |-> 1, winner |-> None],
                       [athlete1 |-> 4, athlete2 |-> 2, number |-> 2, winner |-> None]>>,
                     <<[athlete1 |-> None, athlete2 |-> None, number |-> 0, winner |-> None]>> >>

\* a full bracket of 16 whose seeds came in descending order and were reassigned
C18_Witness ==
  /\ pc = "done"
  /\ NumAthletes = 16
  /\ given[1].seed > given[2].seed
  /\ initial_bracket[1] = 1
  /\ initial_bracket[2] = 9
  /\ rounds[1][8].number = 8
  /\ rounds[1][8].athlete2 = 2

\* C19: for every round k with more than one match there is a round k+1, and
\* its match j (0-based) has as first slot the winner of match 2j of round k
\* and as second slot the winner of match 2j+1, each possibly unset; it is
\* numbered exactly when both of these winners are set.
C19_WinnersFeedNextRound ==
  pc = "done" =>
    \A k \in 1..Len(rounds) :
      Len(rounds[k]) > 1 =>
        /\ k + 1 <= Len(rounds)
        /\ 2 * Len(rounds[k + 1]) = Len(rounds[k])
        /\ \A j \in 0..(Len(rounds[k + 1]) - 1) :
             LET m == rounds[k + 1][j + 1]
                 w1 == rounds[k][2 * j + 1].winner
                 w2 == rounds[k][2 * j + 2].winner
             IN /\ m.athlete1 = w1
                /\ m.athlete2 = w2
                /\ (m.number # 0) <=> (w1 # None /\ w2 # None)

\* round 2 holds a match fed by two bye winners (numbered), a match fed by
\* one bye winner only, and round 1 has a real match whose winner is unset
C19_Witness ==
  /\ pc = "done"
  /\ NumAthletes = 5
  /\ \E j \in 1..Len(rounds[2]) :
       rounds[2][j].number # 0 /\ rounds[2][j].athlete1 = rounds[1][2 * j - 1].winner
  /\ \E j \in 1..Len(rounds[2]) :
       Populated(rounds[2][j]) = 1 /\ rounds[2][j].number = 0
  /\ \E j \in 1..Len(rounds[1]) : rounds[1][j].number # 0 /\ rounds[1][j].winner = None
  /\ Populated(rounds[3][1]) = 0

\* C20: for N >= 2 with byes > 0, let B be the occupied slots of the sibling
\* pairs of the naive placement with exactly one occupied slot, taken in
\* order(bracket_size) order.  Then |B| = byes, the final placement has the
\* athlete with seed i at B[i-1] for i <= byes and the athlete with seed
\* byes + j at the j-th slot of order(bracket_size) not in B, and every other
\* slot is empty.
C20_RebalancedPlacement ==
  (Placed /\ NumAthletes >= 2 /\ ExpectedByes > 0) =>
    LET order == generate_seeding_order(ExpectedSize)
        naive == NaiveNow
        occupied == {IF naive[2 * k + 1] # None THEN 2 * k ELSE 2 * k + 1 : k \in ByePairs(naive)}
        B == SelectSeq(order, LAMBDA pos : pos \in occupied)
        rest == SelectSeq(order, LAMBDA pos : pos \notin occupied)
        byes == ExpectedByes
        used == {B[i] : i \in 1..byes} \cup {rest[j] : j \in 1..(NumAthletes - byes)}
    IN /\ Len(B) = byes
       /\ Len(rest) = ExpectedSize - byes
       /\ \A i \in 1..byes :
            /\ initial_bracket[B[i] + 1] # None
            /\ athletes[initial_bracket[B[i] + 1]].seed = i
       /\ \A j \in 1..(NumAthletes - byes) :
            /\ initial_bracket[rest[j] + 1] # None
            /\ athletes[initial_bracket[rest[j] + 1]].seed = byes + j
       /\ \A p \in 0..(ExpectedSize - 1) : p \notin used => initial_bracket[p + 1] = None

\* 11 athletes in 16 slots: five byes; the rebalancing moved seed 1 from slot 0
\* to slot 8, the first bye slot in seeding order, and seed 6 to slot 0, the
\* first slot of the seeding order outside B
C20_Witness ==
  /\ Placed
  /\ NumAthletes = 11
  /\ ExpectedByes = 5
  /\ initial_bracket # NaiveNow
  /\ NaiveNow[1] = 1
  /\ initial_bracket[9] = 1
  /\ initial_bracket[1] = 6
  /\ initial_bracket[16] = 7

\* C21: no match outside round 1 has a winner, a later-round match with one
\* populated slot included; every match of round 3 or later has both slots
\* empty and number 0; numbered matches occur only in rounds 1 and 2.
C21_LaterRoundsUnresolved ==
  FirstRoundBuilt =>
    \A r \in 1..Len(rounds) : \A j \in 1..Len(rounds[r]) :
      LET m == rounds[r][j]
      IN /\ r >= 2 => m.winner = None
         /\ r >= 3 => (m.athlete1 = None /\ m.athlete2 = None /\ m.number = 0)
         /\ m.number # 0 => r \in {1, 2}

\* a four-round bracket: round 2 has a numbered match and a match with one
\* bye winner in it and no winner of its own, rounds 3 and 4 are empty
C21_Witness ==
  /\ pc = "done"
  /\ NumAthletes = 11
  /\ Len(rounds) = 4
  /\ \E j \in 1..Len(rounds[2]) : rounds[2][j].number # 0 /\ rounds[2][j].winner = None
  /\ \E j \in 1..Len(rounds[2]) :
       /\ Populated(rounds[2][j]) = 1
       /\ TheOnlyAthlete(rounds[2][j]) \in {rounds[1][2 * j - 1].winner, rounds[1][2 * j].winner}
       /\ rounds[2][j].winner = None
  /\ \A j \in 1..Len(rounds[3]) : Populated(rounds[3][j]) = 0
  /\ Populated(rounds[4][1]) = 0
====
